---------------------------- MODULE Spec2Model ----------------------------
(***************************************************************************)
(* A model of the camera-storage workload generator: the three storage     *)
(* back ends behind the FakeStorageImpl trait (filesystem, RocksDB, sled), *)
(* and the orchestrator of main.rs that registers the cameras, seeds the   *)
(* store, and spawns one writer task per camera and n_readers reader       *)
(* tasks.                                                                  *)
(*                                                                         *)
(* Two specifications share the storage operators:                         *)
(*   StoreSpec  drives the trait's three operations directly, with any     *)
(*              arguments, on each of the three back ends;                 *)
(*   Spec       is main(): one run of the program on a fresh database      *)
(*              directory.                                                 *)
(***************************************************************************)
EXTENDS Integers, Sequences, FiniteSets, Bags, TLC

(***************************************************************************)
(* Bounds of the model.                                                    *)
(***************************************************************************)
\* args.n_cameras ranges over 0..MaxCameras
MaxCameras == 2
\* args.n_readers ranges over 0..MaxReaders
MaxReaders == 1
\* args.seed_images_per_camera ranges over 0..MaxSeed
MaxSeed == 2
\* a writer task performs at most MaxTicks ticks (the code's loop is endless)
MaxTicks == 2
\* the elapsed time measured around one operation ranges over 0..MaxElapsed
MaxElapsed == 1
\* length of the image buffer (140 * 1024 in the code), scaled down
ImageLen == 1
\* the bytes of a buffer range over 0..MaxByte (0..255 in the code)
MaxByte == 1

\* The indices the trait's operations are driven with in StoreSpec:
\* a one-digit and a two-digit key.
StoreIndices == {1, 10}
\* The camera names the trait's operations are driven with in StoreSpec.
StoreCameraIds == {0, 1}

(***************************************************************************)
(* Values.                                                                 *)
(***************************************************************************)
\* Option<T>: None, Some(x)
None == <<>>
Some(x) == <<x>>
IsSome(o) == Len(o) = 1

\* Result<T>: Ok(v), Err
Ok(v) == [ok |-> TRUE, val |-> v]
Err == [ok |-> FALSE, val |-> None]

\* repeat_with(rand::random::<u8>).take(140 * 1024).collect(): every buffer
\* of ImageLen bytes is a possible outcome
Images == [1..ImageLen -> 0..MaxByte]

\* What the medium does to one storage call: "none" it serves the call;
\* "reject" it refuses the call before anything is changed; "partial" it
\* fails after the call has begun to change the medium.
Faults == {"none", "reject", "partial"}

\* decimal digits of a u64, most significant first, as format!("{}", n) prints them
DigitChar == <<"0", "1", "2", "3", "4", "5", "6", "7", "8", "9">>

RECURSIVE Digits(_)
Digits(n) == IF n < 10 THEN <<DigitChar[n + 1]>>
             ELSE Append(Digits(n \div 10), DigitChar[(n % 10) + 1])

\* format!("{}.jpg", index)
FileName(index) == Append(Digits(index), ".jpg")

\* faulty variant of CameraName: the index is left out of the name
CameraName_WithoutIndex(idx) == <<"camera">>

\* format!("camera{}", idx)
CameraName(idx) == <<"camera">> \o Digits(idx)

(***************************************************************************)
(* A database is a function from the names of its existing namespaces      *)
(* (directories, column families, trees) to the namespace's content, a     *)
(* function from the keys present to the bytes stored under them.          *)
(***************************************************************************)
EmptyNamespace == [k \in {} |-> <<>>]
EmptyDatabase == [n \in {} |-> EmptyNamespace]

\* insert or replace key in one namespace map
Put(ns, key, bytes) == [k \in (DOMAIN ns) \cup {key} |-> IF k = key THEN bytes ELSE ns[k]]

\* create namespace name, empty, in database st (which does not hold it)
CreateNamespace(st, name) ==
    [n \in (DOMAIN st) \cup {name} |-> IF n = name THEN EmptyNamespace ELSE st[n]]

\* replace the content of the existing namespace name
WithNamespace(st, name, ns) == [st EXCEPT ![name] = ns]

\* Option<bytes> stored under (name, key)
Stored(st, name, key) ==
    IF name \in DOMAIN st /\ key \in DOMAIN st[name] THEN Some(st[name][key]) ELSE None

(***************************************************************************)
(* FilesystemStorage                                                       *)
(***************************************************************************)
\* create_dir_all(path/name).expect("mkdir should work")
FilesystemStorage_add_camera(st, name, fault) ==
    IF fault # "none" THEN [panic |-> TRUE, store |-> st]
    ELSE IF name \in DOMAIN st THEN [panic |-> FALSE, store |-> st]
    ELSE [panic |-> FALSE, store |-> CreateNamespace(st, name)]

\* std::fs::write(path/camera/<index>.jpg, image)?: File::create (create or
\* truncate), then write_all. A missing directory fails the create; a fault
\* after the create leaves a file holding the first k bytes, k < Len(image).
FilesystemStorage_write_image(st, camera, index, image, fault, k) ==
    IF camera \notin DOMAIN st \/ fault = "reject" THEN [res |-> Err, store |-> st]
    ELSE IF fault = "partial"
    THEN [res |-> Err,
          store |-> WithNamespace(st, camera, Put(st[camera], FileName(index), SubSeq(image, 1, k)))]
    ELSE [res |-> Ok(None),
          store |-> WithNamespace(st, camera, Put(st[camera], FileName(index), image))]

\* Ok(Some(std::fs::read(path)?)): a missing file is an error of fs::read
FilesystemStorage_read_image(st, camera, index, fault) ==
    IF fault # "none" \/ ~IsSome(Stored(st, camera, FileName(index)))
    THEN [res |-> Err, store |-> st]
    ELSE [res |-> Ok(Stored(st, camera, FileName(index))), store |-> st]

(***************************************************************************)
(* RocksDB                                                                 *)
(***************************************************************************)
\* faulty variant of RocksDB_add_camera: an existing column family is
\* dropped and created again, empty
RocksDB_add_camera_Recreates(st, name, fault) ==
    IF fault # "none" THEN [panic |-> FALSE, store |-> st]
    ELSE IF name \in DOMAIN st
    THEN [panic |-> FALSE, store |-> WithNamespace(st, name, EmptyNamespace)]
    ELSE [panic |-> FALSE, store |-> CreateNamespace(st, name)]

\* let _ = self.db.create_cf(name, &opts): the error of an existing column
\* family, or of the medium, is dropped
RocksDB_add_camera(st, name, fault) ==
    IF fault # "none" \/ name \in DOMAIN st THEN [panic |-> FALSE, store |-> st]
    ELSE [panic |-> FALSE, store |-> CreateNamespace(st, name)]

\* cf_handle(camera).context(..)?; put_cf(cf, key, image).context(..)?
\* put_cf is atomic: a failed put stores nothing
RocksDB_write_image(st, camera, index, image, fault, k) ==
    IF camera \notin DOMAIN st \/ fault # "none" THEN [res |-> Err, store |-> st]
    ELSE [res |-> Ok(None),
          store |-> WithNamespace(st, camera, Put(st[camera], FileName(index), image))]

\* cf_handle(camera).context(..)?; get_cf(cf, key).context("Key not found")
RocksDB_read_image(st, camera, index, fault) ==
    IF camera \notin DOMAIN st \/ fault # "none" THEN [res |-> Err, store |-> st]
    ELSE [res |-> Ok(Stored(st, camera, FileName(index))), store |-> st]

(***************************************************************************)
(* Sled                                                                    *)
(***************************************************************************)
\* db.open_tree(name): opens the tree, creating it when it does not exist
Sled_open_tree(st, name) == IF name \in DOMAIN st THEN st ELSE CreateNamespace(st, name)

\* let _ = self.db.open_tree(name)
Sled_add_camera(st, name, fault) ==
    IF fault # "none" THEN [panic |-> FALSE, store |-> st]
    ELSE [panic |-> FALSE, store |-> Sled_open_tree(st, name)]

\* open_tree(camera).context(..).and_then(|tree| tree.insert(key, image)...)
\* "reject" fails open_tree, "partial" fails the insert after open_tree
Sled_write_image(st, camera, index, image, fault, k) ==
    IF fault = "reject" THEN [res |-> Err, store |-> st]
    ELSE IF fault = "partial" THEN [res |-> Err, store |-> Sled_open_tree(st, camera)]
    ELSE [res |-> Ok(None),
          store |-> WithNamespace(Sled_open_tree(st, camera), camera,
                                  Put(Sled_open_tree(st, camera)[camera], FileName(index), image))]

\* open_tree(camera).context(..).and_then(|tree| tree.get(key)...)
Sled_read_image(st, camera, index, fault) ==
    IF fault = "reject" THEN [res |-> Err, store |-> st]
    ELSE IF fault = "partial" THEN [res |-> Err, store |-> Sled_open_tree(st, camera)]
    ELSE [res |-> Ok(Stored(st, camera, FileName(index))),
          store |-> Sled_open_tree(st, camera)]

(***************************************************************************)
(* trait FakeStorageImpl, by implementation                                *)
(***************************************************************************)
Implementations == {"Filesystem", "RocksDB", "Sled"}

\* enum SupportedDatabase: the implementations main() can be run with
SupportedDatabase == {"Filesystem", "RocksDB"}

add_camera(db, st, name, fault) ==
    CASE db = "Filesystem" -> FilesystemStorage_add_camera(st, name, fault)
      [] db = "RocksDB" -> RocksDB_add_camera(st, name, fault)
      [] db = "Sled" -> Sled_add_camera(st, name, fault)

write_image(db, st, camera, index, image, fault, k) ==
    CASE db = "Filesystem" -> FilesystemStorage_write_image(st, camera, index, image, fault, k)
      [] db = "RocksDB" -> RocksDB_write_image(st, camera, index, image, fault, k)
      [] db = "Sled" -> Sled_write_image(st, camera, index, image, fault, k)

read_image(db, st, camera, index, fault) ==
    CASE db = "Filesystem" -> FilesystemStorage_read_image(st, camera, index, fault)
      [] db = "RocksDB" -> RocksDB_read_image(st, camera, index, fault)
      [] db = "Sled" -> Sled_read_image(st, camera, index, fault)


(***************************************************************************)
(* State.                                                                  *)
(***************************************************************************)
VARIABLES
    db,                   \* the implementation the trait object is
    store,                \* the database behind it
    call,                 \* StoreSpec: the trait call of the last step, with its outcome
    args,                 \* args::Arguments
    pc,                   \* where main() is
    cameras,              \* main's Vec of camera names
    i_camera,             \* how many cameras main's registration loop has done
    writers_start_index,  \* Option<u64>: main's local, None until assigned
    seed,                 \* the locals of seed_db
    mem,                  \* the block of main's alloc / dealloc
    writers,              \* Vec<JoinHandle>: the writer tasks spawned, by position
    readers,              \* Vec<JoinHandle>: the reader tasks spawned, by position
    written               \* bag of the (camera, index) pairs write_image was called with

vars == <<db, store, call, args, pc, cameras, i_camera, writers_start_index, seed, mem,
          writers, readers, written>>

mainVars == <<args, pc, cameras, i_camera, writers_start_index, seed, mem, writers,
              readers, written>>

\* The record of one trait call: the operation and its arguments, what the
\* medium did, the result, and whether the call panicked.
Call(op, camera, index, image, fault, res, panic) ==
    [op |-> op, camera |-> camera, index |-> index, image |-> image,
     fault |-> fault, res |-> res, panic |-> panic]

NoCall == Call("none", <<>>, 0, <<>>, "none", Ok(None), FALSE)

(***************************************************************************)
(* StoreSpec: the three operations of the trait, called in any order with  *)
(* any arguments on one handle of any implementation.                      *)
(***************************************************************************)
StoreInit ==
    /\ db \in Implementations
    /\ store = EmptyDatabase
    /\ call = NoCall
    /\ args = <<>>
    /\ pc = "driver"
    /\ cameras = <<>>
    /\ i_camera = 0
    /\ writers_start_index = None
    /\ seed = <<>>
    /\ mem = <<>>
    /\ writers = <<>>
    /\ readers = <<>>
    /\ written = EmptyBag

StoreAddCamera ==
    \E c \in StoreCameraIds, fault \in Faults :
        LET r == add_camera(db, store, CameraName(c), fault) IN
        /\ ~call.panic
        /\ store' = r.store
        /\ call' = Call("add_camera", CameraName(c), 0, <<>>, fault, Ok(None), r.panic)
        /\ UNCHANGED <<db, mainVars>>

StoreWriteImage ==
    \E c \in StoreCameraIds, index \in StoreIndices, image \in Images, fault \in Faults,
       k \in 0..(ImageLen - 1) :
        LET r == write_image(db, store, CameraName(c), index, image, fault, k) IN
        /\ ~call.panic
        /\ store' = r.store
        /\ call' = Call("write_image", CameraName(c), index, image, fault, r.res, FALSE)
        /\ UNCHANGED <<db, mainVars>>

StoreReadImage ==
    \E c \in StoreCameraIds, index \in StoreIndices, fault \in Faults :
        LET r == read_image(db, store, CameraName(c), index, fault) IN
        /\ ~call.panic
        /\ store' = r.store
        /\ call' = Call("read_image", CameraName(c), index, <<>>, fault, r.res, FALSE)
        /\ UNCHANGED <<db, mainVars>>

StoreNext == StoreAddCamera \/ StoreWriteImage \/ StoreReadImage

StoreSpec == StoreInit /\ [][StoreNext]_vars

(***************************************************************************)
(* Spec: main().                                                           *)
(***************************************************************************)
\* the values of --readers-rate the model runs with (10 is the default)
ReaderRates == {0, 10}

Arguments ==
    [db_type : SupportedDatabase,
     seed_db : BOOLEAN,
     seed_images_per_camera : 0..MaxSeed,
     n_cameras : 0..MaxCameras,
     n_readers : 0..MaxReaders,
     readers_rate : ReaderRates]

\* (0..args.n_cameras).map(|idx| format!("camera{}", idx)).collect()
CameraNames(n_cameras) == [i \in 1..n_cameras |-> CameraName(i - 1)]

\* the process is gone once main has returned or panicked, or the process
\* was killed: the runtime is dropped and with it every task
Exited == pc \in {"exit", "panicked", "killed"}

Init ==
    /\ args \in Arguments
    /\ db = args.db_type
    /\ store = EmptyDatabase
    /\ call = NoCall
    /\ pc = "add_camera"
    /\ cameras = CameraNames(args.n_cameras)
    /\ i_camera = 0
    /\ writers_start_index = None
    /\ seed = [jpeg_buffer |-> None, index |-> 0, camera_id |-> 1]
    /\ mem = [allocs |-> 0, deallocs |-> 0]
    /\ writers = <<>>
    /\ readers = <<>>
    /\ written = EmptyBag

\* for camera in &cameras { db.add_camera(camera); }
MainAddCamera ==
    /\ pc = "add_camera"
    /\ i_camera < Len(cameras)
    /\ \E fault \in Faults :
        LET r == add_camera(db, store, cameras[i_camera + 1], fault) IN
        /\ store' = r.store
        /\ pc' = IF r.panic THEN "panicked" ELSE pc
        /\ i_camera' = IF r.panic THEN i_camera ELSE i_camera + 1
    /\ UNCHANGED <<db, call, args, cameras, writers_start_index, seed, mem, writers, readers,
                   written>>

\* faulty variant of UnseededStartIndex: the else branch yields 0
UnseededStartIndex_Zero(a) == 0

\* else { args.seed_images_per_camera }
UnseededStartIndex(a) == a.seed_images_per_camera

\* let writers_start_index = if args.seed_db { seed_db(..) } else { .. }:
\* enter seed_db, which generates its jpeg_buffer, or take the else branch
MainSeedOrSkip ==
    /\ pc = "add_camera"
    /\ i_camera = Len(cameras)
    /\ IF args.seed_db
       THEN /\ pc' = "seed_db"
            /\ \E buffer \in Images : seed' = [seed EXCEPT !.jpeg_buffer = Some(buffer)]
            /\ UNCHANGED writers_start_index
       ELSE /\ pc' = "alloc"
            /\ writers_start_index' = Some(UnseededStartIndex(args))
            /\ UNCHANGED seed
    /\ UNCHANGED <<db, call, store, args, cameras, i_camera, mem, writers, readers, written>>

\* faulty variant of SeedAdvance: the outer loop steps by 2
SeedAdvance_SkipsAnIndex(sd, n_cameras) ==
    IF sd.camera_id < n_cameras
    THEN [sd EXCEPT !.camera_id = sd.camera_id + 1]
    ELSE [sd EXCEPT !.camera_id = 1, !.index = sd.index + 2]

\* the position of seed_db's two nested loops after one more write:
\* for index in 0..images_per_camera { for camera_id in cameras { .. } }
SeedAdvance(sd, n_cameras) ==
    IF sd.camera_id < n_cameras
    THEN [sd EXCEPT !.camera_id = sd.camera_id + 1]
    ELSE [sd EXCEPT !.camera_id = 1, !.index = sd.index + 1]

\* faulty variant of SeedWrite: the two loops are nested the other way
\* round, all indices of a camera before the next camera
SeedWrite_CameraMajor ==
    /\ pc = "seed_db"
    /\ seed.index < args.seed_images_per_camera
    /\ Len(cameras) > 0
    /\ \E fault \in Faults, k \in 0..(ImageLen - 1) :
        LET camera == cameras[seed.camera_id]
            image == seed.jpeg_buffer[1]
            r == write_image(db, store, camera, seed.index, image, fault, k)
            advanced ==
                IF seed.index + 1 < args.seed_images_per_camera
                THEN [seed EXCEPT !.index = seed.index + 1]
                ELSE IF seed.camera_id < Len(cameras)
                THEN [seed EXCEPT !.camera_id = seed.camera_id + 1, !.index = 0]
                ELSE [seed EXCEPT !.camera_id = 1, !.index = args.seed_images_per_camera] IN
        /\ store' = r.store
        /\ written' = written (+) SetToBag({<<camera, seed.index>>})
        /\ pc' = IF r.res.ok THEN pc ELSE "panicked"
        /\ seed' = IF r.res.ok THEN advanced ELSE seed
    /\ UNCHANGED <<db, call, args, cameras, i_camera, writers_start_index, mem, writers, readers>>

\* faulty variant of SeedWrite: the result of write_image is dropped and the
\* loops go on
SeedWrite_IgnoresError ==
    /\ pc = "seed_db"
    /\ seed.index < args.seed_images_per_camera
    /\ Len(cameras) > 0
    /\ \E fault \in Faults, k \in 0..(ImageLen - 1) :
        LET camera == cameras[seed.camera_id]
            image == seed.jpeg_buffer[1]
            r == write_image(db, store, camera, seed.index, image, fault, k) IN
        /\ store' = r.store
        /\ written' = written (+) SetToBag({<<camera, seed.index>>})
        /\ pc' = pc
        /\ seed' = SeedAdvance(seed, Len(cameras))
    /\ UNCHANGED <<db, call, args, cameras, i_camera, writers_start_index, mem, writers, readers>>

\* db.write_image(camera_id, index, &jpeg_buffer).await?  and, in main,
\* .expect("seed_db") on the error
SeedWrite ==
    /\ pc = "seed_db"
    /\ seed.index < args.seed_images_per_camera
    /\ Len(cameras) > 0
    /\ \E fault \in Faults, k \in 0..(ImageLen - 1) :
        LET camera == cameras[seed.camera_id]
            image == seed.jpeg_buffer[1]
            r == write_image(db, store, camera, seed.index, image, fault, k) IN
        /\ store' = r.store
        /\ written' = written (+) SetToBag({<<camera, seed.index>>})
        /\ pc' = IF r.res.ok THEN pc ELSE "panicked"
        /\ seed' = IF r.res.ok THEN SeedAdvance(seed, Len(cameras)) ELSE seed
    /\ UNCHANGED <<db, call, args, cameras, i_camera, writers_start_index, mem, writers, readers>>

\* Ok(images_per_camera)
SeedResult(images_per_camera) == images_per_camera

\* faulty variant of SeedReturn: seed_db is not awaited, main goes on while
\* frames are still to be written
SeedReturn_BeforeLoopsEnd ==
    /\ pc = "seed_db"
    /\ writers_start_index' = Some(SeedResult(args.seed_images_per_camera))
    /\ pc' = "alloc"
    /\ UNCHANGED <<db, call, store, args, cameras, i_camera, seed, mem, writers, readers, written>>

\* seed_db returns: both loops are over
SeedReturn ==
    /\ pc = "seed_db"
    /\ seed.index = args.seed_images_per_camera \/ Len(cameras) = 0
    /\ writers_start_index' = Some(SeedResult(args.seed_images_per_camera))
    /\ pc' = "alloc"
    /\ UNCHANGED <<db, call, store, args, cameras, i_camera, seed, mem, writers, readers, written>>

\* where main is once spawn_writers has spawned nw tasks and spawn_readers nr
SpawnPc(nw, nr) ==
    IF nw < Len(cameras) THEN "spawn_writers"
    ELSE IF nr < args.n_readers THEN "spawn_readers"
    ELSE "join_all"

\* what alloc and the write_bytes after it can come to: main holds a block
\* and goes on, or the process is killed. alloc returns null when memory is
\* short and its behaviour is undefined for a size of 0 (--ram-buffer-mb 0);
\* the pointer is not checked, and write_bytes through it is undefined.
AllocOutcomes == {"block", "killed"}

\* std::alloc::alloc(layout); write_bytes(ptr, 1, size)
MainAlloc ==
    /\ pc = "alloc"
    /\ \E outcome \in AllocOutcomes :
        IF outcome = "block"
        THEN /\ mem' = [mem EXCEPT !.allocs = mem.allocs + 1]
             /\ pc' = SpawnPc(0, 0)
        ELSE /\ mem' = mem
             /\ pc' = "killed"
    /\ UNCHANGED <<db, call, store, args, cameras, i_camera, writers_start_index, seed, writers,
                   readers, written>>

\* faulty variant of WriterTask: the task resumes at the last seeded index
WriterTask_StartsOneEarly(camera, start_index) ==
    LET start == IF start_index > 0 THEN start_index - 1 ELSE 0 IN
    [camera_name |-> camera, start_index |-> start, state |-> "spawned",
     jpeg_buffer |-> None, index |-> start, max_duration |-> 0, printed |-> <<>>,
     peak |-> 0, log |-> <<>>]

\* the task spawn_writers spawns for camera: write_camera_images(db, camera, start_index)
\* printed is what the task has put out with println!; peak and log are
\* history: the largest elapsed time of the calls that returned Ok, and the
\* indices write_image was called with
WriterTask(camera, start_index) ==
    [camera_name |-> camera, start_index |-> start_index, state |-> "spawned",
     jpeg_buffer |-> None, index |-> start_index, max_duration |-> 0, printed |-> <<>>,
     peak |-> 0, log |-> <<>>]

\* cameras.iter().map(|camera| tokio::task::spawn(..)): one more camera
SpawnWriter ==
    /\ pc = "spawn_writers"
    /\ writers' = Append(writers, WriterTask(cameras[Len(writers) + 1], writers_start_index[1]))
    /\ pc' = SpawnPc(Len(writers) + 1, 0)
    /\ UNCHANGED <<db, call, store, args, cameras, i_camera, writers_start_index, seed, mem,
                   readers, written>>

\* faulty variant of ReaderTask: the range takes in the first index of the
\* writer tasks
ReaderTask_EndPlusOne(camera, start_index, end_index, rate) ==
    [camera_name |-> camera, start_index |-> start_index, end_index |-> end_index + 1,
     rate |-> rate, state |-> "spawned", max_duration |-> 0, printed |-> <<>>,
     peak |-> 0, requested |-> {}]

\* the task spawn_readers spawns: read_images(db, camera, start_index, end_index, rate)
\* printed is what the task has put out with println!; peak and requested
\* are history: the largest elapsed time of the calls that returned Ok, and
\* the indices read_image was called with
ReaderTask(camera, start_index, end_index, rate) ==
    [camera_name |-> camera, start_index |-> start_index, end_index |-> end_index,
     rate |-> rate, state |-> "spawned", max_duration |-> 0, printed |-> <<>>,
     peak |-> 0, requested |-> {}]

\* (0..n_readers).map(|_| { cameras.iter().choose(rng).cloned().expect("choose"); spawn })
\* spawn_readers(db, &cameras, 0, writers_start_index, n_readers, readers_rate)
SpawnReader ==
    /\ pc = "spawn_readers"
    /\ IF Len(cameras) = 0
       THEN /\ pc' = "panicked"
            /\ UNCHANGED readers
       ELSE /\ \E c \in 1..Len(cameras) :
                readers' = Append(readers, ReaderTask(cameras[c], 0, writers_start_index[1],
                                                      args.readers_rate))
            /\ pc' = SpawnPc(Len(writers), Len(readers) + 1)
    /\ UNCHANGED <<db, call, store, args, cameras, i_camera, writers_start_index, seed, mem,
                   writers, written>>

\* a task's JoinHandle is ready once the task has ended; a task of this
\* program ends only by panicking, its loop having no other exit
Finished(task) == task.state = "panicked"

\* faulty variant of JoinAllReady: ready when any one of the handles is
JoinAllReady_Any(ws, rs) ==
    \/ \E w \in 1..Len(ws) : ws[w].state = "panicked"
    \/ \E r \in 1..Len(rs) : rs[r].state = "panicked"

\* join_all(handles) is ready when every one of the handles is
JoinAllReady(ws, rs) ==
    /\ \A w \in 1..Len(ws) : Finished(ws[w])
    /\ \A r \in 1..Len(rs) : Finished(rs[r])

\* let _ = join_all(writers.chain(readers)).await
MainJoinAll ==
    /\ pc = "join_all"
    /\ JoinAllReady(writers, readers)
    /\ pc' = "dealloc"
    /\ UNCHANGED <<db, call, store, args, cameras, i_camera, writers_start_index, seed, mem,
                   writers, readers, written>>

\* std::alloc::dealloc(ptr, layout), and main returns
MainDealloc ==
    /\ pc = "dealloc"
    /\ mem' = [mem EXCEPT !.deallocs = mem.deallocs + 1]
    /\ pc' = "exit"
    /\ UNCHANGED <<db, call, store, args, cameras, i_camera, writers_start_index, seed, writers,
                   readers, written>>

(***************************************************************************)
(* The writer task: write_camera_images.                                   *)
(***************************************************************************)
\* faulty variant of PcAfterTaskPanic: the panic of a task takes the process down
PcAfterTaskPanic_Aborts(p) == "panicked"

\* tokio::task::spawn(async move { ..expect(..) }): a panic inside a spawned
\* task unwinds that task alone and is kept in its JoinHandle; main stays
\* where it is
PcAfterTaskPanic(p) == p

\* up to the loop: the interval, the task's own jpeg_buffer, index and
\* max_duration
WriterStart(w) ==
    /\ ~Exited
    /\ writers[w].state = "spawned"
    /\ \E buffer \in Images :
        writers' = [writers EXCEPT ![w] = [@ EXCEPT !.state = "ticking",
                                                    !.jpeg_buffer = Some(buffer),
                                                    !.index = writers[w].start_index,
                                                    !.max_duration = 0]]
    /\ UNCHANGED <<db, call, store, args, pc, cameras, i_camera, writers_start_index, seed, mem,
                   readers, written>>

\* faulty variant of TrackMax: the duration of the last call is kept
TrackMax_Latest(max_duration, elapsed) == elapsed

\* if elapsed > max_duration { max_duration = elapsed; println!(..) }
TrackMax(max_duration, elapsed) == IF elapsed > max_duration THEN elapsed ELSE max_duration

\* the println!("[{}] Max write time: {:?}", camera_name, elapsed) of the
\* same if: the lines put out so far, by the value they show
Reported(printed, max_duration, elapsed) ==
    IF elapsed > max_duration THEN Append(printed, elapsed) ELSE printed

\* history: the largest of the elapsed times seen
Peak(peak, elapsed) == IF peak >= elapsed THEN peak ELSE elapsed

\* faulty variant of NextIndex: index += 2
NextIndex_SkipsOne(index) == index + 2

\* index += 1
NextIndex(index) == index + 1

\* faulty variant of WriterImage: the bytes are made anew for the call
WriterImage_Fresh(task) == [i \in 1..ImageLen |-> 0]

\* &jpeg_buffer, the image a tick passes to write_image: the buffer the task
\* generated before its loop
WriterImage(task) == task.jpeg_buffer[1]

\* faulty variant of WriterAfterWrite: an error is dropped and the loop goes
\* on with the same index
WriterAfterWrite_Retries(task, res, elapsed) ==
    IF ~res.ok
    THEN [task EXCEPT !.log = Append(@, task.index)]
    ELSE [task EXCEPT !.max_duration = TrackMax(@, elapsed),
                      !.printed = Reported(@, task.max_duration, elapsed),
                      !.peak = Peak(@, elapsed),
                      !.index = NextIndex(@),
                      !.log = Append(@, task.index)]

\* the body of the writer's loop after write_image has returned res:
\* `?` and the task's .expect(..) end the task on an error; otherwise the
\* maximum is tracked and the cursor advanced
WriterAfterWrite(task, res, elapsed) ==
    IF ~res.ok
    THEN [task EXCEPT !.state = "panicked", !.log = Append(@, task.index)]
    ELSE [task EXCEPT !.max_duration = TrackMax(@, elapsed),
                      !.printed = Reported(@, task.max_duration, elapsed),
                      !.peak = Peak(@, elapsed),
                      !.index = NextIndex(@),
                      !.log = Append(@, task.index)]

\* one tick: db.write_image(camera_name, index, &jpeg_buffer).await?
WriterTick(w) ==
    /\ ~Exited
    /\ writers[w].state = "ticking"
    /\ Len(writers[w].log) < MaxTicks
    /\ \E fault \in Faults, k \in 0..(ImageLen - 1), elapsed \in 0..MaxElapsed :
        LET task == writers[w]
            image == WriterImage(task)
            r == write_image(db, store, task.camera_name, task.index, image, fault, k) IN
        /\ store' = r.store
        /\ written' = written (+) SetToBag({<<task.camera_name, task.index>>})
        /\ writers' = [writers EXCEPT ![w] = WriterAfterWrite(task, r.res, elapsed)]
        /\ pc' = IF r.res.ok THEN pc ELSE PcAfterTaskPanic(pc)
    /\ UNCHANGED <<db, call, args, cameras, i_camera, writers_start_index, seed, mem, readers>>

(***************************************************************************)
(* The reader task: read_images.                                           *)
(***************************************************************************)
\* up to the loop: Duration::from_secs(1) / rate as u32 panics on a rate of 0
ReaderStart(r) ==
    /\ ~Exited
    /\ readers[r].state = "spawned"
    /\ readers' = [readers EXCEPT ![r].state = IF readers[r].rate = 0 THEN "panicked" ELSE "ticking"]
    /\ pc' = IF readers[r].rate = 0 THEN PcAfterTaskPanic(pc) ELSE pc
    /\ UNCHANGED <<db, call, store, args, cameras, i_camera, writers_start_index, seed, mem,
                   writers, written>>

\* faulty variant of SampleRange: the range includes end_index
SampleRange_Inclusive(start_index, end_index) == start_index..end_index

\* (start_index..end_index): the indices choose() draws from
SampleRange(start_index, end_index) == start_index..(end_index - 1)

\* the body of the reader's loop after read_image(camera_name, index) has
\* returned res
ReaderAfterRead(task, index, res, elapsed) ==
    IF ~res.ok
    THEN [task EXCEPT !.state = "panicked", !.requested = @ \cup {index}]
    ELSE [task EXCEPT !.max_duration = TrackMax(@, elapsed),
                      !.printed = Reported(@, task.max_duration, elapsed),
                      !.peak = Peak(@, elapsed),
                      !.requested = @ \cup {index}]

\* one tick: (start_index..end_index).choose(rng).unwrap(), which panics on
\* an empty range; then db.read_image(camera_name, index).await?
ReaderTick(r) ==
    /\ ~Exited
    /\ readers[r].state = "ticking"
    /\ LET task == readers[r] IN
       IF SampleRange(task.start_index, task.end_index) = {}
       THEN /\ readers' = [readers EXCEPT ![r].state = "panicked"]
            /\ pc' = PcAfterTaskPanic(pc)
            /\ UNCHANGED store
       ELSE \E index \in SampleRange(task.start_index, task.end_index),
               fault \in Faults, elapsed \in 0..MaxElapsed :
                LET rd == read_image(db, store, task.camera_name, index, fault) IN
                /\ store' = rd.store
                /\ readers' = [readers EXCEPT ![r] = ReaderAfterRead(task, index, rd.res, elapsed)]
                /\ pc' = IF rd.res.ok THEN pc ELSE PcAfterTaskPanic(pc)
    /\ UNCHANGED <<db, call, args, cameras, i_camera, writers_start_index, seed, mem, writers,
                   written>>

Next ==
    \/ MainAddCamera
    \/ MainSeedOrSkip
    \/ SeedWrite
    \/ SeedReturn
    \/ MainAlloc
    \/ SpawnWriter
    \/ SpawnReader
    \/ MainJoinAll
    \/ MainDealloc
    \/ \E w \in 1..Len(writers) : WriterStart(w)
    \/ \E w \in 1..Len(writers) : WriterTick(w)
    \/ \E r \in 1..Len(readers) : ReaderStart(r)
    \/ \E r \in 1..Len(readers) : ReaderTick(r)

Spec == Init /\ [][Next]_vars

(***************************************************************************)
(* The storage contract.                                                   *)
(***************************************************************************)
\* C1: for every implementation and every camera whose namespace exists,
\* read_image of an index nothing is stored under, served by the medium
\* without a fault, returns Ok(None) and not an error.
C1_ReadOfUnwrittenIndexIsNone ==
    (/\ call.op = "read_image"
     /\ call.fault = "none"
     /\ call.camera \in DOMAIN store
     /\ FileName(call.index) \notin DOMAIN store[call.camera])
    => call.res = Ok(None)

\* C10: for every implementation, write_image to a camera whose namespace
\* does not exist returns an error and leaves the database as it was.
C10_WriteToUnregisteredCameraFails ==
    [][(call'.op = "write_image" /\ call'.camera \notin DOMAIN store)
        => (~call'.res.ok /\ store' = store)]_vars

\* C11: for every implementation, add_camera for a name whose namespace
\* exists already, served by the medium without a fault, does not fail and
\* leaves the database, the frames stored under that name included, as it was.
C11_AddCameraIdempotent ==
    [][(/\ call'.op = "add_camera"
        /\ call'.fault = "none"
        /\ call'.camera \in DOMAIN store)
       => (~call'.panic /\ store' = store)]_vars

C11_Witness ==
    /\ call.op = "add_camera"
    /\ call.fault = "none"
    /\ ~call.panic
    /\ call.camera \in DOMAIN store
    /\ \A index \in StoreIndices : IsSome(Stored(store, call.camera, FileName(index)))

(***************************************************************************)
(* The run of main().                                                      *)
(***************************************************************************)
\* the indices a run of the model can touch
Indices == 0..(MaxSeed + MaxTicks)

\* the indices of camera whose frame is stored whole
Committed(camera) ==
    {i \in Indices : /\ IsSome(Stored(store, camera, FileName(i)))
                     /\ Len(Stored(store, camera, FileName(i))[1]) = ImageLen}

\* the indices of camera something is stored under
Present(camera) == {i \in Indices : IsSome(Stored(store, camera, FileName(i)))}

\* seed_db has returned to main
SeedReturned == args.seed_db /\ IsSome(writers_start_index)

\* C2: once seed_db has returned N, read_image(c, i) returns the buffer
\* seed_db wrote, for every camera c and every i < N, whatever the writer
\* and reader tasks have done since.
C2_SeededFramesReadBack ==
    SeedReturned =>
        \A c \in 1..Len(cameras) : \A i \in 0..(args.seed_images_per_camera - 1) :
            read_image(db, store, cameras[c], i, "none").res = Ok(seed.jpeg_buffer)

C2_Witness ==
    /\ SeedReturned
    /\ args.seed_images_per_camera = MaxSeed
    /\ Len(readers) = 1 /\ readers[1].state = "ticking"
    /\ Len(writers) = 2
    /\ \A w \in 1..2 : /\ Len(writers[w].log) = MaxTicks
                       /\ writers[w].state = "ticking"
                       /\ writers[w].jpeg_buffer # seed.jpeg_buffer

\* C3 as claimed: with the seed flag set or not, every index in a reader's
\* sampling range has been written whole for the reader's camera.
C3_ReaderRangeCommitted_AnyConfiguration ==
    \A r \in 1..Len(readers) :
        SampleRange(readers[r].start_index, readers[r].end_index)
            \subseteq Committed(readers[r].camera_name)

\* C3 as amended: when the seed flag is set, every index in a reader's
\* sampling range has been written whole for the reader's camera, and the
\* upper bound of the range is at most the number of frames committed for it.
C3_ReaderRangeCommitted_WhenSeeded ==
    args.seed_db =>
        \A r \in 1..Len(readers) :
            /\ SampleRange(readers[r].start_index, readers[r].end_index)
                   \subseteq Committed(readers[r].camera_name)
            /\ readers[r].end_index <= Cardinality(Committed(readers[r].camera_name))

C3_Witness ==
    /\ args.seed_db
    /\ args.seed_images_per_camera = MaxSeed
    /\ Len(readers) = 1 /\ readers[1].state = "ticking" /\ readers[1].max_duration > 0
    /\ \E w \in 1..Len(writers) : Len(writers[w].log) > 0

\* C4: the indices a writer task has passed to write_image are start_index,
\* start_index + 1, ... in this order: no gap, none twice.
C4_WriterIndicesConsecutive ==
    \A w \in 1..Len(writers) : \A n \in 1..Len(writers[w].log) :
        writers[w].log[n] = writers[w].start_index + (n - 1)

C4_Witness ==
    \E w \in 1..Len(writers) :
        /\ Len(writers[w].log) = MaxTicks
        /\ writers[w].start_index > 0
        /\ writers[w].state = "ticking"

\* no (camera, index) has been the target of more than one write_image call
WrittenAtMostOnce == \A pair \in BagToSet(written) : CopiesIn(pair, written) = 1

\* C5 as claimed: from an empty store, seeded or not, the indices present
\* for a camera are 0..n-1 for some n, and no (camera, index) has been the
\* target of two write calls.
C5_ContiguousFromZero_AnyConfiguration ==
    /\ \A c \in DOMAIN store : \E n \in 0..(MaxSeed + MaxTicks + 1) : Present(c) = 0..(n - 1)
    /\ WrittenAtMostOnce

\* C5 as amended: from an empty store, the indices present for a camera are
\* a contiguous range that starts at 0 when seeding was run and at
\* seed_images_per_camera when it was skipped, and no (camera, index) has
\* been the target of two write calls.
C5_ContiguousFromBase ==
    LET base == IF args.seed_db THEN 0 ELSE args.seed_images_per_camera IN
    /\ \A c \in DOMAIN store :
        \E n \in 0..(MaxSeed + MaxTicks + 1) : Present(c) = base..(base + n - 1)
    /\ WrittenAtMostOnce

C5_Witness ==
    /\ Len(writers) = 2
    /\ \A w \in 1..2 : Len(writers[w].log) = MaxTicks /\ writers[w].state = "ticking"
    /\ args.seed_images_per_camera = MaxSeed
    /\ \A c \in DOMAIN store : Cardinality(Present(c)) = MaxTicks + (IF args.seed_db THEN MaxSeed ELSE 0)
    /\ ~args.seed_db

\* C6 as claimed: a writer task's starting cursor is the value seed_db
\* returned when seeding was run, and 0 when it was skipped.
C6_StartIsSeedResultOrZero ==
    \A w \in 1..Len(writers) :
        writers[w].start_index = IF args.seed_db THEN writers_start_index[1] ELSE 0

\* C6 as amended: a writer task's starting cursor is seed_images_per_camera,
\* which is the value seed_db returned when seeding was run and the
\* configured value, not 0, when it was skipped.
C6_StartIsSeedImagesPerCamera ==
    \A w \in 1..Len(writers) :
        /\ writers[w].start_index = args.seed_images_per_camera
        /\ writers[w].start_index = writers_start_index[1]

C6_Witness ==
    /\ ~args.seed_db
    /\ args.seed_images_per_camera > 0
    /\ Len(writers) = 2
    /\ \A w \in 1..2 : writers[w].state = "ticking"

\* the task records of the run, writers then readers
Tasks == writers \o readers

\* C7: a step in which one task ends by a panic changes no other task and
\* does not move main; the other tasks that were ticking are still ticking
\* in a process that has not exited.
C7_TaskFailureIsLocal ==
    [][\A t \in 1..Len(Tasks) :
        (Tasks[t].state # "panicked" /\ Tasks'[t].state = "panicked")
        => /\ pc' = pc
           /\ ~Exited'
           /\ \A u \in 1..Len(Tasks) : u # t => Tasks'[u] = Tasks[u]]_vars

C7_Witness ==
    /\ pc = "join_all"
    /\ Len(writers) = 2 /\ Len(readers) = 1
    /\ writers[1].state = "panicked" /\ Len(writers[1].log) = 1
    /\ writers[2].state = "ticking" /\ Len(writers[2].log) = MaxTicks
    /\ readers[1].state = "ticking"

\* some task has failed
SomeTaskFailed == \E t \in 1..Len(Tasks) : Tasks[t].state = "panicked"

\* C8 as claimed: once any one task has failed, the wait of main in join_all
\* is over, other tasks still running or not.
C8_WaitEndsAtFirstFailure ==
    (pc = "join_all" /\ SomeTaskFailed) => ENABLED MainJoinAll

\* C8 as amended: main gets past join_all only when every writer and reader
\* task has ended; one failed task does not end the wait while another
\* task is running, and main then releases the block and returns.
C8_WaitEndsWhenAllTasksEnded ==
    /\ pc \in {"dealloc", "exit"} => \A t \in 1..Len(Tasks) : Tasks[t].state = "panicked"
    /\ (pc = "join_all" /\ \E t \in 1..Len(Tasks) : Tasks[t].state # "panicked")
           => ~ENABLED MainJoinAll

C8_Witness ==
    /\ pc = "exit"
    /\ Len(writers) = 2 /\ Len(readers) = 1
    /\ \A t \in 1..Len(Tasks) : Tasks[t].state = "panicked"
    /\ \E w \in 1..2 : Len(writers[w].log) = MaxTicks

\* every index writer w has written with success reads back as w's buffer
WriterRoundTrip(w) ==
    \A i \in writers[w].start_index..(writers[w].index - 1) :
        read_image(db, store, writers[w].camera_name, i, "none").res = Ok(writers[w].jpeg_buffer)

\* C9: a write of a writer task changes nothing stored for another camera,
\* and after any interleaving every index a writer task has written reads
\* back as the buffer of that task.
C9_WritersDoNotInterfere ==
    [][/\ \A w \in 1..Len(writers) :
            writers'[w].log # writers[w].log
            => \A n \in DOMAIN store :
                   n # writers[w].camera_name => (n \in DOMAIN store' /\ store'[n] = store[n])
       /\ \A w \in 1..Len(writers') : WriterRoundTrip(w)']_vars

C9_Witness ==
    /\ Len(writers) = 2
    /\ \A w \in 1..2 : Len(writers[w].log) = MaxTicks /\ writers[w].state = "ticking"
    /\ writers[1].jpeg_buffer # writers[2].jpeg_buffer
    /\ writers[1].camera_name # writers[2].camera_name

\* C12 as claimed: all frames stored whole in a run, for every camera, by
\* seed_db and by every writer task, have the same bytes.
C12_AllFramesIdentical ==
    \A c1, c2 \in 1..Len(cameras) :
        \A i1 \in Committed(cameras[c1]), i2 \in Committed(cameras[c2]) :
            Stored(store, cameras[c1], FileName(i1)) = Stored(store, cameras[c2], FileName(i2))

\* every frame stored whole has the bytes of the buffer of the one that
\* wrote it: seed_db below seed_images_per_camera, the camera's writer task
\* from there on
FramesOfOwner ==
    \A c \in 1..Len(cameras) : \A i \in Committed(cameras[c]) :
        Stored(store, cameras[c], FileName(i)) =
            IF args.seed_db /\ i < args.seed_images_per_camera
            THEN seed.jpeg_buffer
            ELSE IF c <= Len(writers) THEN writers[c].jpeg_buffer ELSE None

\* C12 as amended: seed_db and every writer task generate a buffer of their
\* own, once, before their loop: a buffer once generated never changes, and
\* every frame stored whole has the bytes of the buffer of the one that wrote
\* it. All buffers have the same length; their bytes may differ.
C12_OneBufferPerTask ==
    [][/\ IsSome(seed.jpeg_buffer) => seed'.jpeg_buffer = seed.jpeg_buffer
       /\ \A w \in 1..Len(writers) :
            IsSome(writers[w].jpeg_buffer) => writers'[w].jpeg_buffer = writers[w].jpeg_buffer
       /\ \A w \in 1..Len(writers') :
            IsSome(writers'[w].jpeg_buffer) => Len(writers'[w].jpeg_buffer[1]) = ImageLen
       /\ FramesOfOwner']_vars

C12_Witness ==
    /\ SeedReturned
    /\ args.seed_images_per_camera > 0
    /\ Len(writers) = 2
    /\ writers[1].jpeg_buffer # writers[2].jpeg_buffer
    /\ \A w \in 1..2 :
        /\ writers[w].state = "ticking"
        /\ IsSome(writers[w].jpeg_buffer)
        /\ Cardinality(Committed(cameras[w])) = args.seed_images_per_camera + MaxTicks

\* C13: while add_camera has not been called for every camera nothing has
\* been written, no frame is stored and no task exists; while seed_db runs no
\* task exists; and when a writer or reader task exists, main has its start
\* index and seed_db, when it was run, has written every index below
\* seed_images_per_camera for every camera and is at the end of its loops.
C13_PhasesSequential ==
    /\ i_camera < Len(cameras)
        => /\ pc \in {"add_camera", "panicked"}
           /\ written = EmptyBag
           /\ \A n \in DOMAIN store : store[n] = EmptyNamespace
           /\ Tasks = <<>>
    /\ pc = "seed_db" => Tasks = <<>>
    /\ Tasks # <<>>
        => /\ i_camera = Len(cameras)
           /\ IsSome(writers_start_index)
           /\ args.seed_db
               => /\ seed.index = args.seed_images_per_camera
                  /\ \A c \in 1..Len(cameras) :
                        \A i \in 0..(args.seed_images_per_camera - 1) :
                            CopiesIn(<<cameras[c], i>>, written) >= 1

C13_Witness ==
    /\ args.seed_db
    /\ args.seed_images_per_camera = MaxSeed
    /\ Len(cameras) = MaxCameras
    /\ Len(readers) = 1 /\ readers[1].state = "ticking" /\ readers[1].max_duration > 0
    /\ \A w \in 1..Len(writers) : Len(writers[w].log) > 0

\* the number of write_image calls made for camera so far
WriteCalls(camera) ==
    LET pairs == {p \in BagToSet(written) : p[1] = camera} IN
    Cardinality(pairs)

\* C14: while seed_db runs, the frames committed for the camera at position
\* c are those of the indices below seed.index, and that of seed.index too
\* when c is before the position of the inner loop; so the numbers of frames
\* of two cameras differ by at most 1, and no camera has index i + 1 before
\* every camera has index i. When seed_db has returned and no task has been
\* spawned yet, every camera holds exactly 0..N-1 and the value returned is N.
C14_SeedingIndexMajor ==
    /\ pc = "seed_db"
        => /\ \A c \in 1..Len(cameras) :
                Committed(cameras[c]) =
                    0..(IF c < seed.camera_id THEN seed.index ELSE seed.index - 1)
           /\ \A c1, c2 \in 1..Len(cameras) :
                Cardinality(Committed(cameras[c1])) - Cardinality(Committed(cameras[c2])) <= 1
    /\ (pc = "seed_db" \/ (pc = "panicked" /\ Tasks = <<>>))
        => \A c1, c2 \in 1..Len(cameras) :
                /\ WriteCalls(cameras[c1]) - WriteCalls(cameras[c2]) <= 1
                /\ \A i \in 1..MaxSeed :
                     CopiesIn(<<cameras[c1], i>>, written) > 0
                        => CopiesIn(<<cameras[c2], i - 1>>, written) > 0
    /\ (SeedReturned /\ pc = "alloc")
        => /\ writers_start_index = Some(args.seed_images_per_camera)
           /\ \A c \in 1..Len(cameras) :
                /\ Committed(cameras[c]) = 0..(args.seed_images_per_camera - 1)
                /\ Present(cameras[c]) = Committed(cameras[c])

C14_Witness ==
    /\ pc = "seed_db"
    /\ Len(cameras) = MaxCameras
    /\ args.seed_images_per_camera = MaxSeed
    /\ seed.index = MaxSeed - 1
    /\ seed.camera_id = MaxCameras

\* C15: a step in which a writer task calls write_image and the frame is not
\* stored whole, the call having failed, ends the task with its cursor at
\* the failed index; and a writer task that has ended changes no more and
\* no write_image call is made for its camera again.
C15_WriterStopsAtFirstFailure ==
    [][\A w \in 1..Len(writers) :
        /\ (/\ writers'[w].log # writers[w].log
            /\ writers[w].index \notin Committed(writers[w].camera_name)')
           => /\ writers'[w].state = "panicked"
              /\ writers'[w].index = writers[w].index
              /\ writers'[w].log = Append(writers[w].log, writers[w].index)
        /\ writers[w].state = "panicked"
           => /\ writers'[w] = writers[w]
              /\ WriteCalls(writers[w].camera_name)' = WriteCalls(writers[w].camera_name)
              /\ \A i \in Indices :
                    CopiesIn(<<writers[w].camera_name, i>>, written')
                        = CopiesIn(<<writers[w].camera_name, i>>, written)]_vars

C15_Witness ==
    /\ Len(writers) = 2
    /\ writers[1].state = "panicked"
    /\ Len(writers[1].log) = 2
    /\ writers[1].index = writers[1].start_index + 1
    /\ CopiesIn(<<writers[1].camera_name, writers[1].index>>, written) = 1
    /\ writers[2].state = "ticking" /\ Len(writers[2].log) = MaxTicks

\* C16: after every step, the max_duration of every writer and reader task
\* is the largest elapsed time of the calls of that task that returned Ok,
\* 0 when there is none; it does not decrease; a step of one task leaves
\* max_duration and the lines put out by every other task as they were; and
\* a task puts out a line, showing the new maximum, in exactly the steps in
\* which the elapsed time of its call is above its maximum so far.
C16_MaxDurationTracksPeak ==
    [][/\ \A t \in 1..Len(Tasks') : Tasks'[t].max_duration = Tasks'[t].peak
       /\ \A t \in 1..Len(Tasks) :
            /\ Tasks'[t].max_duration >= Tasks[t].max_duration
            /\ (Tasks'[t].printed # Tasks[t].printed) <=> (Tasks'[t].peak > Tasks[t].peak)
            /\ Tasks'[t].printed # Tasks[t].printed
               => Tasks'[t].printed = Append(Tasks[t].printed, Tasks'[t].peak)
            /\ Tasks'[t] # Tasks[t]
               => \A u \in 1..Len(Tasks) :
                    u # t => /\ Tasks'[u].max_duration = Tasks[u].max_duration
                             /\ Tasks'[u].printed = Tasks[u].printed]_vars

C16_Witness ==
    /\ Len(writers) = 2 /\ Len(readers) = 1
    /\ writers[1].max_duration = MaxElapsed /\ writers[1].printed = <<MaxElapsed>>
    /\ Len(writers[1].log) = MaxTicks /\ writers[1].state = "ticking"
    /\ writers[2].max_duration = 0 /\ writers[2].printed = <<>>
    /\ Len(writers[2].log) = MaxTicks /\ writers[2].state = "ticking"
    /\ readers[1].max_duration = MaxElapsed /\ readers[1].printed = <<MaxElapsed>>
    /\ readers[1].state = "ticking"

\* C17: main allocates the block at most once and never releases more than
\* it allocated; and when the process has stopped after main allocated the
\* block, by a return of main or by a panic, the block has been released
\* exactly once.
C17_BlockReleasedOnEveryExit ==
    /\ mem.allocs <= 1
    /\ mem.deallocs <= mem.allocs
    /\ (Exited /\ mem.allocs = 1) => mem.deallocs = 1

\* the indices writer task w has called write_image with
WriterIndices(w) == {writers[w].log[n] : n \in 1..Len(writers[w].log)}

\* with B the start index main holds: every reader's range is [0, B) and the
\* reader has requested indices of that range only; every writer task
\* starts at B and has written indices from B on only; and no index a reader
\* has requested is one a writer task has written
RangesDisjoint ==
    LET B == writers_start_index[1] IN
    /\ \A r \in 1..Len(readers) :
        /\ readers[r].start_index = 0
        /\ readers[r].end_index = B
        /\ readers[r].requested \subseteq SampleRange(0, B)
    /\ \A w \in 1..Len(writers) :
        /\ writers[w].start_index = B
        /\ \A i \in WriterIndices(w) : i >= B
        /\ \A r \in 1..Len(readers) : WriterIndices(w) \cap readers[r].requested = {}

\* C18: a reader's camera and sampling range, once the reader is spawned,
\* never change, and after every step the ranges are disjoint as
\* RangesDisjoint says: the readers have requested indices below B only and
\* the writer tasks have written indices from B on only, at any time of the
\* run so far.
C18_ReaderAndWriterRangesDisjoint ==
    [][/\ \A r \in 1..Len(readers) :
            /\ readers'[r].camera_name = readers[r].camera_name
            /\ readers'[r].start_index = readers[r].start_index
            /\ readers'[r].end_index = readers[r].end_index
       /\ Tasks' # <<>> => RangesDisjoint']_vars

C18_Witness ==
    /\ args.seed_images_per_camera = MaxSeed
    /\ Len(readers) = 1
    /\ readers[1].state = "ticking"
    /\ readers[1].requested = 0..(MaxSeed - 1)
    /\ \E w \in 1..Len(writers) :
        /\ writers[w].camera_name = readers[1].camera_name
        /\ Len(writers[w].log) = MaxTicks
        /\ writers[w].state = "ticking"

\* C19: in a run with seed_images_per_camera = 0, a tick of a reader task
\* ends the task by a panic without a read_image call and changes neither
\* the store, nor main, nor a writer task; no reader has requested an index
\* at any time; and the writer tasks start at 0, have written 0, 1, ... and,
\* while main waits in join_all, one that is in its loop can tick again.
C19_EmptyRangeEndsReaders ==
    [][args.seed_images_per_camera = 0
       => /\ \A r \in 1..Len(readers) :
                ReaderTick(r)
                => /\ readers'[r].state = "panicked"
                   /\ readers'[r].requested = {}
                   /\ store' = store
                   /\ writers' = writers
                   /\ pc' = pc
          /\ \A r \in 1..Len(readers') :
                /\ readers'[r].requested = {}
                /\ readers'[r].max_duration = 0
                /\ SampleRange(readers'[r].start_index, readers'[r].end_index) = {}
          /\ \A w \in 1..Len(writers) :
                /\ writers[w].start_index = 0
                /\ \A n \in 1..Len(writers[w].log) : writers[w].log[n] = n - 1
                /\ (/\ pc = "join_all"
                    /\ writers[w].state = "ticking"
                    /\ Len(writers[w].log) < MaxTicks)
                   => ENABLED WriterTick(w)]_vars

C19_Witness ==
    /\ args.seed_images_per_camera = 0
    /\ Len(readers) = 1
    /\ readers[1].rate > 0
    /\ readers[1].state = "panicked"
    /\ Len(writers) = 2
    /\ \A w \in 1..2 :
        /\ writers[w].state = "ticking"
        /\ Len(writers[w].log) = MaxTicks
        /\ 0 \in Committed(writers[w].camera_name)

\* C20: a step of seed_db in which write_image is called and the frame is
\* not stored whole, the call having failed, leaves the loops where they
\* are and ends the process by a panic of main; from then on nothing
\* changes: no write_image call is made and no task is spawned.
C20_SeedingFailureEndsRun ==
    [][/\ \A c \in 1..Len(cameras) :
            (/\ pc = "seed_db"
             /\ c = seed.camera_id
             /\ written' # written
             /\ seed.index \notin Committed(cameras[c])')
            => /\ pc' = "panicked"
               /\ seed' = seed
               /\ writers_start_index' = None
               /\ Tasks' = <<>>
       /\ (pc = "panicked" /\ writers_start_index = None)
          => /\ Tasks = <<>>
             /\ mem.allocs = 0
             /\ UNCHANGED vars]_vars

C20_Witness ==
    /\ pc = "panicked"
    /\ args.seed_db
    /\ writers_start_index = None
    /\ Len(cameras) = MaxCameras
    /\ seed.index = MaxSeed - 1 /\ seed.camera_id = MaxCameras
    /\ CopiesIn(<<cameras[seed.camera_id], seed.index>>, written) = 1
    /\ seed.index \notin Committed(cameras[seed.camera_id])
    /\ Tasks = <<>>

=============================================================================
